---- MODULE Spec2Model ----
(***************************************************************************)
(* Model of scrapers/scrape_santaisabel.py: one run of main().  The        *)
(* browser-automation library and the database client are the environment: *)
(* every call into them either returns one of its possible results or      *)
(* raises, and the model chooses among those outcomes.                     *)
(***************************************************************************)
EXTENDS Integers, Sequences, FiniteSets, TLC

\* ------------------------------------------------------------- bounds
MaxCards == 3       \* longest list of card elements the page returns
MaxLen == 4         \* longest exhaustively enumerated price text
MaxName == 2        \* longest exhaustively enumerated name text

\* ------------------------------------------------------ text handling
\* Texts are sequences of one-character strings.
WhitespaceChars == {" ", "\n"}

\* str.isdigit on one character (line 109, filter(str.isdigit, ...)).
IsDigitNoZero(c) == c \in {"1", "2", "3", "4", "5", "6", "7", "8", "9"}

IsDigit(c) == c \in {"0", "1", "2", "3", "4", "5", "6", "7", "8", "9"}

\* ''.join(filter(str.isdigit, price_text))
FilterDigits(text) == SelectSeq(text, IsDigit)

DigitVal(c) ==
    CASE c = "0" -> 0 [] c = "1" -> 1 [] c = "2" -> 2 [] c = "3" -> 3
      [] c = "4" -> 4 [] c = "5" -> 5 [] c = "6" -> 6 [] c = "7" -> 7
      [] c = "8" -> 8 [] c = "9" -> 9

\* int(s) for a non-empty string of digits; int("") raises ValueError, which
\* the caller models.
RECURSIVE ParseInt(_)
ParseInt(s) ==
    IF Len(s) = 0 THEN 0
    ELSE 10 * ParseInt(SubSeq(s, 1, Len(s) - 1)) + DigitVal(s[Len(s)])

\* name.strip()
RECURSIVE LStrip(_)
LStrip(s) ==
    IF Len(s) > 0 /\ s[1] \in WhitespaceChars THEN LStrip(Tail(s)) ELSE s

RECURSIVE RStrip(_)
RStrip(s) ==
    IF Len(s) > 0 /\ s[Len(s)] \in WhitespaceChars
    THEN RStrip(SubSeq(s, 1, Len(s) - 1)) ELSE s

Strip(s) == LStrip(RStrip(s))

\* An unbound local is the empty sequence, a bound one a sequence of one value.
Unbound == << >>
Bound(v) == << v >>

\* -------------------------------------------------------------- records
\* The dictionary appended at lines 112-116, without stripping the name.
MakeRecordRawName(sid, p, name) ==
    [supermarket_id |-> sid, price |-> p, regular_price |-> p,
     is_available |-> TRUE, source |-> "scraping",
     metadata |-> [scraped_name |-> name]]

\* The dictionary appended at lines 112-116.
MakeRecord(sid, p, name) ==
    [supermarket_id |-> sid, price |-> p, regular_price |-> p,
     is_available |-> TRUE, source |-> "scraping",
     metadata |-> [scraped_name |-> Strip(name)]]

KeepPriceNonNegative(p) == p >= 0

\* if price > 0 (line 111)
KeepPrice(p) == p > 0

\* ------------------------------------------------------ page contents
\* A card element is described by what each call on it gives:
\*   nameQ, priceQ : result of element.query_selector: "found", "none", "raise"
\*   nameRead, priceRead : result of inner_text(): "ok" or "raise"
\*   name, priceText : the texts inner_text() returns
Card(nq, pq, nr, pr, n, t) ==
    [nameQ |-> nq, priceQ |-> pq, nameRead |-> nr, priceRead |-> pr,
     name |-> n, priceText |-> t]

GoodCard(n, t) == Card("found", "found", "ok", "ok", n, t)

PriceAlphabet == {"0", "1", "9", "$", ".", ",", " ", "C"}
NameAlphabet == {"p", " "}

RECURSIVE SeqsUpTo(_, _)
SeqsUpTo(S, n) ==
    IF n = 0 THEN {<< >>}
    ELSE LET shorter == SeqsUpTo(S, n - 1)
         IN shorter \cup {Append(s, x) : s \in {t \in shorter : Len(t) = n - 1}, x \in S}

ExampleTexts ==
    {<<"$", "1", ".", "9", "9", "0">>,
     <<"1", ",", "9", "9", "0", " ", "C", "L", "P">>}

PriceTexts == SeqsUpTo(PriceAlphabet, MaxLen) \cup ExampleTexts
NameTexts == SeqsUpTo(NameAlphabet, MaxName)

\* Representative cards, one per path through the loop body.
RepCards ==
    {GoodCard(<<"p">>, <<"$", "1", "9">>),
     GoodCard(<<" ", "p", "\n">>, <<"1", ".", "0">>),
     GoodCard(<<"p">>, <<"0">>),
     GoodCard(<<"p">>, <<"$">>),
     Card("none", "found", "ok", "ok", << >>, << >>),
     Card("found", "none", "ok", "ok", << >>, << >>),
     Card("raise", "found", "ok", "ok", << >>, << >>),
     Card("found", "raise", "ok", "ok", << >>, << >>),
     Card("found", "found", "raise", "ok", << >>, << >>),
     Card("found", "found", "ok", "raise", <<"p">>, << >>)}

\* What page.query_selector_all may return: every list of at most MaxCards
\* representative cards, and every single card with an enumerated text.
PageContents ==
    SeqsUpTo(RepCards, MaxCards)
        \cup {<<GoodCard(<<"p">>, t)>> : t \in PriceTexts}
        \cup {<<GoodCard(n, <<"$", "1">>)>> : n \in NameTexts}

\* What the supermarkets lookup may return in response.data.
SupermarketIds == {"id-a", "id-b"}
LookupRows == {<< >>, <<"id-a">>, <<"id-b", "id-a">>}

CallNames ==
    {"launch", "new_context", "new_page", "goto", "wait_for_timeout",
     "evaluate", "wait_for_selector", "screenshot", "close",
     "query_selector_all", "create_client", "select", "query_selector",
     "inner_text", "insert"}

\* ---------------------------------------------------------------- state
VARIABLES
    pc,                  \* position of main(): the next call to make
    stage,               \* last stage the run reported (the messages it prints)
    launched,            \* a browser process was spawned (line 48 returned)
    calls,               \* number of calls made so far, per library operation
    navFailure,          \* exception caught at lines 74/81: "none", "timeout", "error"
    product_elements,    \* line 86
    idx,                 \* position of the for loop of line 101
    supermarket_id,      \* line 93
    products_to_insert,  \* line 100
    price_text,          \* line 108
    price,               \* line 109
    insertArg            \* the list handed to insert() at line 125

vars ==
    <<pc, stage, launched, calls, navFailure, product_elements, idx,
      supermarket_id, products_to_insert, price_text, price, insertArg>>

locals ==
    <<product_elements, idx, supermarket_id, products_to_insert, price_text,
      price, insertArg>>

Outcomes == {"ok", "raise"}
PageOutcomes == {"ok", "timeout", "error"}

OccurrencesIn(made, c) == Cardinality({i \in DOMAIN made : made[i] = c})

\* calls after the operations of `made` have been called
After(made) == [c \in CallNames |-> calls[c] + OccurrencesIn(made, c)]

Init ==
    /\ pc = "launch"
    /\ stage = "Start"
    /\ launched = FALSE
    /\ calls = [c \in CallNames |-> 0]
    /\ navFailure = "none"
    /\ product_elements = << >>
    /\ idx = 1
    /\ supermarket_id = Unbound
    /\ products_to_insert = << >>
    /\ price_text = Unbound
    /\ price = Unbound
    /\ insertArg = Unbound

\* An exception no handler of main() catches: it leaves main() (and the
\* async with block) and nothing after the raising call is executed.
Uncaught(made) ==
    /\ pc' = "raised"
    /\ calls' = After(made)

\* ------------------------------------------------ session bootstrapper
\* p.firefox.launch(...), lines 48-51
Launch ==
    /\ pc = "launch"
    /\ \E out \in Outcomes :
          IF out = "ok"
          THEN /\ pc' = "new_context"
               /\ calls' = After(<<"launch">>)
               /\ launched' = TRUE
               /\ stage' = "BrowserLaunched"
          ELSE /\ Uncaught(<<"launch">>)
               /\ UNCHANGED <<launched, stage>>
    /\ UNCHANGED <<navFailure, locals>>

\* browser.new_context(...), lines 52-56
NewContext ==
    /\ pc = "new_context"
    /\ \E out \in Outcomes :
          IF out = "ok"
          THEN pc' = "new_page" /\ calls' = After(<<"new_context">>)
          ELSE Uncaught(<<"new_context">>)
    /\ UNCHANGED <<stage, launched, navFailure, locals>>

\* context.new_page(), line 57
NewPage ==
    /\ pc = "new_page"
    /\ \E out \in Outcomes :
          IF out = "ok"
          THEN pc' = "goto" /\ calls' = After(<<"new_page">>)
          ELSE Uncaught(<<"new_page">>)
    /\ UNCHANGED <<stage, launched, navFailure, locals>>

\* ---------------------------------------------------------- page loader
\* except TimeoutError, lines 74-80, entered after the calls of `made`
OnTimeout(made, shot, closed) ==
    /\ navFailure' = "timeout"
    /\ stage' = "NavigationTimeout"
    /\ IF shot = "raise"
       THEN Uncaught(made \o <<"screenshot">>)
       ELSE /\ calls' = After(made \o <<"screenshot", "close">>)
            /\ pc' = IF closed = "raise" THEN "raised" ELSE "done"

OnNavErrorNoReturn(made, closed) ==
    /\ navFailure' = "error"
    /\ stage' = "NavigationError"
    /\ calls' = After(made \o <<"close">>)
    /\ pc' = IF closed = "raise" THEN "raised" ELSE "query_all"

\* except Exception, lines 81-84, entered after the calls of `made`
OnNavError(made, closed) ==
    /\ navFailure' = "error"
    /\ stage' = "NavigationError"
    /\ calls' = After(made \o <<"close">>)
    /\ pc' = IF closed = "raise" THEN "raised" ELSE "done"

\* One call of the try block of lines 60-72: it returns, times out or raises.
PageCall(call, next, reached) ==
    \E out \in PageOutcomes, shot \in Outcomes, closed \in Outcomes :
        /\ CASE out = "ok" ->
                  /\ pc' = next
                  /\ stage' = reached
                  /\ calls' = After(<<call>>)
                  /\ UNCHANGED navFailure
             [] out = "timeout" -> OnTimeout(<<call>>, shot, closed)
             [] out = "error" -> OnNavError(<<call>>, closed)
        /\ UNCHANGED <<launched, locals>>

\* page.goto(TARGET_URL, ...), lines 61-62
Goto == pc = "goto" /\ PageCall("goto", "settle", "PageLoaded")

\* page.wait_for_timeout(10000), line 64
Settle == pc = "settle" /\ PageCall("wait_for_timeout", "scroll", stage)

\* page.evaluate("window.scrollBy(...)"), lines 66-67
Scroll == pc = "scroll" /\ PageCall("evaluate", "settle_scroll", stage)

\* page.wait_for_timeout(5000), line 68
SettleScroll ==
    pc = "settle_scroll" /\ PageCall("wait_for_timeout", "wait_for_selector", stage)

\* page.wait_for_selector(PRODUCT_CARD_SELECTOR, ...), lines 70-72
WaitForSelector ==
    pc = "wait_for_selector"
        /\ PageCall("wait_for_selector", "query_all", "ProductsFound")

\* page.query_selector_all(PRODUCT_CARD_SELECTOR), line 86 (outside any try)
QueryAll ==
    /\ pc = "query_all"
    /\ \/ \E cards \in PageContents :
             /\ product_elements' = cards
             /\ pc' = "lookup"
             /\ calls' = After(<<"query_selector_all">>)
       \/ Uncaught(<<"query_selector_all">>) /\ UNCHANGED product_elements
    /\ UNCHANGED <<stage, launched, navFailure, idx, supermarket_id,
                   products_to_insert, price_text, price, insertArg>>

\* --------------------------------------------------------------- loader
LookupFailedNoReturn(made, closed) ==
    /\ stage' = "IdResolutionFailed"
    /\ calls' = After(made \o <<"close">>)
    /\ pc' = IF closed = "raise" THEN "raised" ELSE "loop"
    /\ UNCHANGED supermarket_id

\* except Exception, lines 95-98, entered after the calls of `made`
LookupFailed(made, closed) ==
    /\ stage' = "IdResolutionFailed"
    /\ calls' = After(made \o <<"close">>)
    /\ pc' = IF closed = "raise" THEN "raised" ELSE "done"
    /\ UNCHANGED supermarket_id

\* The try block of lines 90-94: create_client, the select on supermarkets,
\* response.data[0]['id'].  response.data[0] raises IndexError on zero rows.
Lookup ==
    /\ pc = "lookup"
    /\ \E closed \in Outcomes :
          \/ LookupFailed(<<"create_client">>, closed)
          \/ LookupFailed(<<"create_client", "select">>, closed)
          \/ \E rows \in LookupRows :
                IF Len(rows) = 0
                THEN LookupFailed(<<"create_client", "select">>, closed)
                ELSE /\ supermarket_id' = Bound(rows[1])
                     /\ stage' = "IdResolved"
                     /\ calls' = After(<<"create_client", "select">>)
                     /\ pc' = "loop"
    /\ UNCHANGED <<launched, navFailure, product_elements, idx,
                   products_to_insert, price_text, price, insertArg>>

\* ------------------------------------------------------------ extractor
\* The body of the for loop, lines 102-118, on one card element: the calls it
\* makes, whether an exception reached the handler of line 117, the values
\* assigned to price_text and price, and the records appended.
ElementResult(card, sid) ==
    LET res(made, raised, text, parsed, recs) ==
            [made |-> made, raised |-> raised, text |-> text,
             parsed |-> parsed, recs |-> recs]
        none == << >>
    IN
    IF card.nameQ = "raise"
    THEN res(<<"query_selector">>, TRUE, Unbound, Unbound, none)
    ELSE IF card.priceQ = "raise"
    THEN res(<<"query_selector", "query_selector">>, TRUE, Unbound, Unbound, none)
    ELSE IF ~(card.nameQ = "found" /\ card.priceQ = "found")
    THEN res(<<"query_selector", "query_selector">>, FALSE, Unbound, Unbound, none)
    ELSE IF card.nameRead = "raise"
    THEN res(<<"query_selector", "query_selector", "inner_text">>,
             TRUE, Unbound, Unbound, none)
    ELSE
    LET made == <<"query_selector", "query_selector", "inner_text", "inner_text">>
        digits == FilterDigits(card.priceText)
    IN
    IF card.priceRead = "raise"
    THEN res(made, TRUE, Unbound, Unbound, none)
    ELSE IF Len(digits) = 0
    THEN res(made, TRUE, Bound(card.priceText), Unbound, none)
    ELSE IF ~KeepPrice(ParseInt(digits))
    THEN res(made, FALSE, Bound(card.priceText), Bound(ParseInt(digits)), none)
    ELSE IF sid = Unbound
    THEN res(made, TRUE, Bound(card.priceText), Bound(ParseInt(digits)), none)
    ELSE res(made, FALSE, Bound(card.priceText), Bound(ParseInt(digits)),
             <<MakeRecord(sid[1], ParseInt(digits), card.name)>>)

AfterElementAbort(i, n, raised) == IF raised THEN n + 1 ELSE i + 1

\* The for loop goes on to the next element, also after the handler of
\* lines 117-118.
AfterElement(i, n, raised) == i + 1

\* One iteration of the for loop, lines 101-118.
ExtractElement ==
    /\ pc = "loop"
    /\ idx <= Len(product_elements)
    /\ LET r == ElementResult(product_elements[idx], supermarket_id)
       IN /\ calls' = After(r.made)
          /\ price_text' = IF r.text = Unbound THEN price_text ELSE r.text
          /\ price' = IF r.parsed = Unbound THEN price ELSE r.parsed
          /\ products_to_insert' = products_to_insert \o r.recs
          /\ idx' = AfterElement(idx, Len(product_elements), r.raised)
    /\ UNCHANGED <<pc, stage, launched, navFailure, product_elements,
                   supermarket_id, insertArg>>

\* The loop is exhausted; browser.close() at line 120 (outside any try).
FinishExtraction ==
    /\ pc = "loop"
    /\ idx > Len(product_elements)
    /\ stage' = "Extracted"
    /\ calls' = After(<<"close">>)
    /\ \E closed \in Outcomes : pc' = IF closed = "raise" THEN "raised" ELSE "insert"
    /\ UNCHANGED <<launched, navFailure, locals>>

\* if products_to_insert: lines 122-131.  The insert returns rows, returns no
\* rows, or raises; the handler of line 130 catches what it raises.
Insert ==
    /\ pc = "insert"
    /\ products_to_insert # << >>
    /\ insertArg' = Bound(products_to_insert)
    /\ calls' = After(<<"insert">>)
    /\ \E out \in {"data", "nodata", "raise"} :
          stage' = IF out = "data" THEN "Inserted" ELSE "InsertFailed"
    /\ pc' = "done"
    /\ UNCHANGED <<launched, navFailure, product_elements, idx, supermarket_id,
                   products_to_insert, price_text, price>>

\* else: lines 132-133
SkipEmpty ==
    /\ pc = "insert"
    /\ products_to_insert = << >>
    /\ stage' = "SkippedEmpty"
    /\ pc' = "done"
    /\ UNCHANGED <<launched, calls, navFailure, locals>>

Next ==
    \/ Launch
    \/ NewContext
    \/ NewPage
    \/ Goto
    \/ Settle
    \/ Scroll
    \/ SettleScroll
    \/ WaitForSelector
    \/ QueryAll
    \/ Lookup
    \/ ExtractElement
    \/ FinishExtraction
    \/ Insert
    \/ SkipEmpty

Spec == Init /\ [][Next]_vars

\* ============================================================ properties
Ended == pc \in {"done", "raised"}

\* The for loop has been left (normally: nothing in it propagates).
LoopLeft == pc \in {"insert", "done"} \/ (pc = "raised" /\ stage = "Extracted")

Processed == SubSeq(product_elements, 1, idx - 1)

\* The value of a price text read independently of the extraction code: the
\* decimal digits of the text, each weighted by the digits that follow it.
DecimalDigits == {"0", "1", "2", "3", "4", "5", "6", "7", "8", "9"}

DecimalValue(c) == CHOOSE v \in 0..9 : <<"0", "1", "2", "3", "4", "5", "6", "7", "8", "9">>[v + 1] = c

HasDecimalDigit(text) == \E i \in DOMAIN text : text[i] \in DecimalDigits

RECURSIVE Pow10(_)
Pow10(n) == IF n = 0 THEN 1 ELSE 10 * Pow10(n - 1)

DigitsAfter(text, i) ==
    Cardinality({j \in DOMAIN text : j > i /\ text[j] \in DecimalDigits})

RECURSIVE SumOver(_, _)
SumOver(text, I) ==
    IF I = {} THEN 0
    ELSE LET i == CHOOSE k \in I : TRUE
         IN DecimalValue(text[i]) * Pow10(DigitsAfter(text, i)) + SumOver(text, I \ {i})

PositionalValue(text) ==
    SumOver(text, {i \in DOMAIN text : text[i] \in DecimalDigits})

\* Both sub-elements exist and both texts can be read.
Readable(card) ==
    /\ card.nameQ = "found" /\ card.priceQ = "found"
    /\ card.nameRead = "ok" /\ card.priceRead = "ok"

\* A card with a name, a price and a strictly positive normalized price.
ValidCard(card) ==
    /\ Readable(card)
    /\ HasDecimalDigit(card.priceText)
    /\ PositionalValue(card.priceText) > 0

\* A card whose extraction fails: a sub-element is missing or a call on it
\* raises (query, text read, or the parse of a text without digits).
FailingCard(card) == ~Readable(card) \/ ~HasDecimalDigit(card.priceText)

\* The text without its leading and trailing whitespace.
Trimmed(s) ==
    LET solid == {i \in DOMAIN s : s[i] \notin {" ", "\n"}}
    IN IF solid = {} THEN << >>
       ELSE SubSeq(s, CHOOSE i \in solid : \A j \in solid : i <= j,
                      CHOOSE i \in solid : \A j \in solid : i >= j)

\* The loop of lines 100-118 run from start to end on a list of cards.
RECURSIVE LoopResult(_, _)
LoopResult(cards, sid) ==
    IF cards = << >> THEN << >>
    ELSE ElementResult(Head(cards), sid).recs \o LoopResult(Tail(cards), sid)

\* ---- C1: on every exit path of main() on which a browser was launched,
\* browser.close has been called exactly once when the run ends.
C1_ClosedExactlyOnce == (Ended /\ launched) => calls["close"] = 1

\* ---- C2: if the identifier lookup fails (zero rows, or the connection or
\* the query raises), no card element is queried or read and no insert call
\* is made in that run.
C2_LookupFailureAborts ==
    (calls["create_client"] > 0 /\ supermarket_id = Unbound)
        => /\ calls["query_selector"] = 0
           /\ calls["inner_text"] = 0
           /\ calls["insert"] = 0
           /\ products_to_insert = << >>

C2_Witness ==
    /\ pc = "done"
    /\ stage = "IdResolutionFailed"
    /\ calls["select"] = 1
    /\ Len(product_elements) = 2
    /\ \E i \in DOMAIN product_elements : ValidCard(product_elements[i])

PositivePrices(list) ==
    \A i \in DOMAIN list : list[i].price \in Nat /\ list[i].price > 0

\* ---- C3: every extracted record, and every record handed to the insert
\* call, has a strictly positive integer price; a card whose price text
\* normalizes to 0 or has no digit contributes no record and does not end
\* the run.
C3_InsertedPricesPositive ==
    /\ PositivePrices(products_to_insert)
    /\ insertArg # Unbound => PositivePrices(insertArg[1])
    /\ pc \in {"loop", "insert", "done", "raised"} =>
          Len(products_to_insert)
              <= Cardinality({i \in DOMAIN Processed : ValidCard(Processed[i])})
    /\ ~(pc = "raised" /\ stage = "IdResolved")

C3_Witness ==
    /\ insertArg # Unbound
    /\ Len(insertArg[1]) = 1
    /\ Len(product_elements) = 3
    /\ Readable(product_elements[1])
    /\ product_elements[1].priceText = <<"0">>
    /\ Readable(product_elements[2])
    /\ product_elements[2].priceText = <<"$">>

ReachedExtracted ==
    stage \in {"Extracted", "Inserted", "InsertFailed", "SkippedEmpty"}

\* ---- C4: the insert call is made at most once, and exactly when the run
\* reached the end of extraction with a non-empty record list; with an empty
\* list the run makes no insert call and ends in SkippedEmpty.
C4_InsertIffNonEmpty ==
    /\ calls["insert"] <= 1
    /\ Ended =>
          /\ calls["insert"] = 1
                <=> (ReachedExtracted /\ products_to_insert # << >>)
          /\ (ReachedExtracted /\ products_to_insert = << >>)
                => (stage = "SkippedEmpty" /\ calls["insert"] = 0)

QueriesOf(cards) ==
    Cardinality({i \in DOMAIN cards : cards[i].nameQ = "raise"})
        + 2 * Cardinality({i \in DOMAIN cards : cards[i].nameQ # "raise"})

\* ---- C5: a card that lacks a sub-element or whose extraction raises is
\* left out, every card of the list is still visited, and the records are
\* those the loop yields on the list without the failing cards.
C5_PartialFailureTolerant ==
    /\ (pc = "loop" /\ supermarket_id # Unbound) =>
          products_to_insert
              = LoopResult(SelectSeq(Processed, LAMBDA c : ~FailingCard(c)),
                           supermarket_id)
    /\ (LoopLeft /\ supermarket_id # Unbound) =>
          /\ products_to_insert
                = LoopResult(SelectSeq(product_elements, LAMBDA c : ~FailingCard(c)),
                             supermarket_id)
          /\ calls["query_selector"] = QueriesOf(product_elements)

C5_Witness ==
    /\ pc = "insert"
    /\ Len(product_elements) = 3
    /\ product_elements[1].nameQ = "raise"
    /\ product_elements[2].priceQ = "none"
    /\ ValidCard(product_elements[3])
    /\ Len(products_to_insert) = 1

\* ---- C6: for a price text with at least one digit, the computed price is
\* the base-10 value of its digit characters in their original order, every
\* other character removed ("$1.990" gives 1990, "1,990 CLP" gives 1990).
C6_PriceNormalization ==
    (price_text # Unbound /\ HasDecimalDigit(price_text[1]))
        => price = Bound(PositionalValue(price_text[1]))

C6_Witness ==
    /\ price_text = Bound(<<"1", ",", "9", "9", "0", " ", "C", "L", "P">>)
    /\ price = Bound(1990)

NothingAfterNavigation ==
    /\ calls["query_selector_all"] = 0
    /\ calls["create_client"] = 0 /\ calls["select"] = 0
    /\ calls["query_selector"] = 0 /\ calls["inner_text"] = 0
    /\ calls["insert"] = 0

\* ---- C7: after a timeout in page loading the run takes the screenshot,
\* ends in NavigationTimeout and closes the browser; after any other
\* exception it ends in NavigationError, closes the browser and takes no
\* screenshot; in both cases there is no lookup, extraction or insert.
C7_NavigationFailureHandling ==
    /\ (Ended /\ navFailure = "timeout") =>
          /\ calls["screenshot"] = 1
          /\ stage = "NavigationTimeout"
          /\ calls["close"] = 1
          /\ NothingAfterNavigation
    /\ (Ended /\ navFailure = "error") =>
          /\ calls["screenshot"] = 0
          /\ stage = "NavigationError"
          /\ calls["close"] = 1
          /\ NothingAfterNavigation

\* ---- C8: no failure makes an exception leave main(): every run ends by
\* returning normally.
C8_NoExceptionLeavesMain == pc # "raised"

RecordsMatch(list, NameOf(_)) ==
    LET valid == SelectSeq(product_elements, ValidCard)
    IN /\ Len(list) = Len(valid)
       /\ \A i \in DOMAIN list :
             /\ list[i].is_available = TRUE
             /\ list[i].source = "scraping"
             /\ list[i].price = PositionalValue(valid[i].priceText)
             /\ list[i].regular_price = list[i].price
             /\ list[i].supermarket_id = supermarket_id[1]
             /\ list[i].metadata.scraped_name = NameOf(valid[i])

RawName(card) == card.name
TrimmedName(card) == Trimmed(card.name)

\* ---- C9: the list handed to the insert holds one record per card that has
\* a name, a price and a strictly positive normalized price, in the order of
\* the cards, with is_available = true, source = "scraping", regular_price =
\* price, the identifier resolved in this run, and metadata.scraped_name equal
\* to the element's name text.
C9_RecordsRawName ==
    /\ (LoopLeft /\ supermarket_id # Unbound) => RecordsMatch(products_to_insert, RawName)
    /\ insertArg # Unbound => RecordsMatch(insertArg[1], RawName)

\* ---- C9, amended: as above, with metadata.scraped_name equal to the
\* element's name text without its leading and trailing whitespace.
C9_RecordsTrimmedName ==
    /\ (LoopLeft /\ supermarket_id # Unbound) => RecordsMatch(products_to_insert, TrimmedName)
    /\ insertArg # Unbound => RecordsMatch(insertArg[1], TrimmedName)

C9_Witness ==
    /\ insertArg # Unbound
    /\ Len(product_elements) = 3
    /\ Len(insertArg[1]) = 2
    /\ ValidCard(product_elements[1])
    /\ product_elements[2].priceQ = "none"
    /\ ValidCard(product_elements[3])
    /\ product_elements[3].name # Trimmed(product_elements[3].name)

StageEdges ==
    {<<"Start", "BrowserLaunched">>, <<"BrowserLaunched", "PageLoaded">>,
     <<"PageLoaded", "ProductsFound">>, <<"ProductsFound", "IdResolved">>,
     <<"IdResolved", "Extracted">>, <<"Extracted", "Inserted">>,
     <<"Extracted", "SkippedEmpty">>, <<"Extracted", "InsertFailed">>,
     <<"BrowserLaunched", "NavigationTimeout">>,
     <<"PageLoaded", "NavigationTimeout">>,
     <<"BrowserLaunched", "NavigationError">>,
     <<"PageLoaded", "NavigationError">>,
     <<"ProductsFound", "IdResolutionFailed">>}

TerminalStages ==
    {"Inserted", "SkippedEmpty", "InsertFailed", "NavigationTimeout",
     "NavigationError", "IdResolutionFailed"}

PageLoadingSteps ==
    {"goto", "settle", "scroll", "settle_scroll", "wait_for_selector"}

StageStep ==
    /\ stage' # stage => <<stage, stage'>> \in StageEdges
    /\ stage' \in {"NavigationTimeout", "NavigationError"} /\ stage' # stage
          => pc \in PageLoadingSteps
    /\ stage' = "IdResolutionFailed" => calls'["query_selector"] = 0
    /\ stage \in TerminalStages => (calls' = calls /\ stage' = stage)

CalledOnce ==
    \A c \in CallNames \ {"query_selector", "inner_text", "wait_for_timeout"} :
        calls[c] <= 1

\* ---- C10: the stages follow Start, BrowserLaunched, PageLoaded,
\* ProductsFound, IdResolved, Extracted, then Inserted or SkippedEmpty;
\* NavigationTimeout and NavigationError are entered only from a page-loading
\* call, IdResolutionFailed only from ProductsFound before any extraction,
\* InsertFailed only from Extracted; no call is repeated, and after a
\* terminal stage no browser or database call is made.
C10_StageOrder == [][StageStep]_vars /\ [](CalledOnce /\ calls["wait_for_timeout"] <= 2)

C10_Witness ==
    /\ pc = "done"
    /\ stage = "Inserted"
    /\ calls["close"] = 1
    /\ calls["insert"] = 1
    /\ Len(product_elements) = 2

====
